---- MODULE Spec2Model ----
(***************************************************************************)
(* A model of sql2latex.py: the script splitter (parse_srcipts), the text  *)
(* sanitizer (sanitize_latex), and the run of main with process_script and *)
(* print_table against a database that may fail.                           *)
(*                                                                         *)
(* Strings are sequences of one-character strings, so that prefixes,       *)
(* slices and replacements are computed rather than assumed.               *)
(***************************************************************************)
EXTENDS Integers, Sequences, FiniteSets, TLC

VARIABLES
    \* parse_srcipts
    file,       \* the lines of the query file
    idx,        \* number of lines the for loop has consumed
    scripts,    \* the list of (number, lines) pairs built so far
    script,     \* the block being accumulated
    ppc,        \* position in parse_srcipts
    \* sanitize_latex
    sin,        \* the argument
    string,     \* the local variable `string`
    spc,        \* position in sanitize_latex
    \* main, process_script
    pc,         \* position in main
    ti,         \* index in `scripts` of the task of the for loop of main
    qi,         \* index in `queries` of the query of the for loop of process_script
    query,      \* the local variable `query` of process_script
    params,     \* the names of `params` the inner for loop has not reached yet
    filled_params, \* the bind mapping built so far
    cursor,     \* what the cursor holds after execute: description, rows, rowcount
    connection, \* "None", "open" or "closed"
    closes,     \* number of calls of connection.close()
    curOpened,  \* number of cursors opened
    curClosed,  \* number of cursors closed
    exc,        \* the exception being raised, if any
    status,     \* the exit status of the process, "running" before it ends
    out,        \* the lines written to standard output
    trace       \* the diagnostic stream, the reads of input() and the database calls

parseVars == <<file, idx, scripts, script, ppc>>
sanVars == <<sin, string, spc>>
runVars ==
    <<pc, ti, qi, query, params, filled_params, cursor, connection, closes, curOpened,
      curClosed, exc, status, out, trace>>
vars == <<parseVars, sanVars, runVars>>

(***************************************************************************)
(* Characters and strings                                                  *)
(***************************************************************************)
Digit == <<"0", "1", "2", "3", "4", "5", "6", "7", "8", "9">>
Whitespace == {" ", "\n", "\t"}

RECURSIVE Flatten(_)
Flatten(ss) == IF ss = <<>> THEN <<>> ELSE Head(ss) \o Flatten(Tail(ss))

\* str.startswith
StartsWith(s, p) == Len(s) >= Len(p) /\ SubSeq(s, 1, Len(p)) = p

\* str.endswith
EndsWith(s, p) == Len(s) >= Len(p) /\ SubSeq(s, Len(s) - Len(p) + 1, Len(s)) = p

\* s[n:] of Python, n >= 0
From(s, n) == SubSeq(s, n + 1, Len(s))

RECURSIVE LStrip(_)
LStrip(s) == IF s # <<>> /\ Head(s) \in Whitespace THEN LStrip(Tail(s)) ELSE s

RECURSIVE RStrip(_)
RStrip(s) ==
    IF s # <<>> /\ s[Len(s)] \in Whitespace THEN RStrip(SubSeq(s, 1, Len(s) - 1)) ELSE s

DigitValue(c) == CHOOSE d \in 0..9 : Digit[d + 1] = c
IsDigit(c) == \E d \in 0..9 : Digit[d + 1] = c

RECURSIVE DigitsValue(_)
DigitsValue(s) ==
    IF s = <<>> THEN 0 ELSE 10 * DigitsValue(SubSeq(s, 1, Len(s) - 1)) + DigitValue(s[Len(s)])

\* The text int() accepts: surrounding whitespace, an optional sign, digits.
IntBody(s) == LET t == RStrip(LStrip(s)) IN IF t # <<>> /\ Head(t) \in {"+", "-"} THEN Tail(t) ELSE t
IsIntLiteral(s) == IntBody(s) # <<>> /\ \A i \in 1..Len(IntBody(s)) : IsDigit(IntBody(s)[i])

\* int(s) for a text int() accepts
IntOf(s) ==
    LET t == RStrip(LStrip(s))
    IN IF t # <<>> /\ Head(t) = "-" THEN 0 - DigitsValue(IntBody(s)) ELSE DigitsValue(IntBody(s))

\* decimal text of a natural number
RECURSIVE DecimalOf(_)
DecimalOf(n) == IF n < 10 THEN <<Digit[n + 1]>> ELSE DecimalOf(n \div 10) \o <<Digit[(n % 10) + 1]>>

NoException == [kind |-> "none", at |-> "none"]
\* cursor.description is None: a description has a column, so it is never empty
None == <<>>
NoResult == [description |-> None, rows |-> <<>>, rowcount |-> 0]

\* the variables of a part of the program that is not running
SanIdle == sin = <<>> /\ string = <<>> /\ spc = "idle"
RunIdle ==
    /\ pc = "idle"
    /\ ti = 0
    /\ qi = 0
    /\ query = <<>>
    /\ params = {}
    /\ filled_params = <<>>
    /\ cursor = NoResult
    /\ connection = "None"
    /\ closes = 0
    /\ curOpened = 0
    /\ curClosed = 0
    /\ exc = NoException
    /\ status = "running"
    /\ out = <<>>
    /\ trace = <<>>

(***************************************************************************)
(* parse_srcipts                                                           *)
(***************************************************************************)
MaxLines == 4
MaxNum == 3

TaskPrefix == <<"-", "-", " ", "T", "a", "s", "k">>

MarkerLine(n) == TaskPrefix \o <<" ">> \o DecimalOf(n) \o <<"\n">>
SourceLine == <<"S", "E", "L", "E", "C", "T", " ", "1", ";", "\n">>
\* begin with the prefix, no integer follows
NoteLine == TaskPrefix \o <<" ", "n", "o", "t", "e", "\n">>
GluedLine == TaskPrefix \o <<"1", "\n">>

Lines == {MarkerLine(n) : n \in 1..MaxNum} \cup {SourceLine, NoteLine, GluedLine}

Files == UNION {[1..n -> Lines] : n \in 0..MaxLines}

\* line.startswith("-- Task")
HasTaskPrefix(line) == StartsWith(line, TaskPrefix)

\* line[8:]
NumText(line) == From(line, 8)

\* the number a closed block gets
ClosedNumberOff(num) == num
ClosedNumber(num) == num - 1

\* the accumulator after a block was closed
KeptBlock(block) == block
FreshBlock(block) == <<>>

\* the number of the final block
FinalNumber(done) == done[Len(done)][1] + 1

InitParse ==
    /\ file \in Files
    /\ idx = 0
    /\ scripts = <<>>
    /\ script = <<>>
    /\ ppc = "loop"
    /\ SanIdle
    /\ RunIdle

\* one iteration of the for loop on a line without the prefix
SourceStep ==
    /\ ppc = "loop"
    /\ idx < Len(file)
    /\ ~HasTaskPrefix(file[idx + 1])
    /\ script' = Append(script, file[idx + 1])
    /\ idx' = idx + 1
    /\ UNCHANGED <<file, scripts, ppc, sanVars, runVars>>

\* one iteration on a line with the prefix whose rest int() accepts
MarkerStep ==
    /\ ppc = "loop"
    /\ idx < Len(file)
    /\ HasTaskPrefix(file[idx + 1])
    /\ IsIntLiteral(NumText(file[idx + 1]))
    /\ LET line == file[idx + 1]
           num == IntOf(NumText(line))
       IN IF script # <<>>
          THEN /\ scripts' = Append(scripts, <<ClosedNumber(num), script>>)
               /\ script' = Append(FreshBlock(script), line)
          ELSE /\ scripts' = scripts
               /\ script' = Append(script, line)
    /\ idx' = idx + 1
    /\ UNCHANGED <<file, ppc, sanVars, runVars>>

\* int(line[8:]) raises ValueError
MarkerValueError ==
    /\ ppc = "loop"
    /\ idx < Len(file)
    /\ HasTaskPrefix(file[idx + 1])
    /\ ~IsIntLiteral(NumText(file[idx + 1]))
    /\ ppc' = "ValueError"
    /\ UNCHANGED <<file, idx, scripts, script, sanVars, runVars>>

\* after the loop: scripts.append((scripts[-1][0] + 1, script)); return scripts
FinalAppend ==
    /\ ppc = "loop"
    /\ idx = Len(file)
    /\ scripts # <<>>
    /\ scripts' = Append(scripts, <<FinalNumber(scripts), script>>)
    /\ ppc' = "return"
    /\ UNCHANGED <<file, idx, script, sanVars, runVars>>

\* after the loop: scripts[-1] of the empty list raises IndexError
FinalIndexError ==
    /\ ppc = "loop"
    /\ idx = Len(file)
    /\ scripts = <<>>
    /\ ppc' = "IndexError"
    /\ UNCHANGED <<file, idx, scripts, script, sanVars, runVars>>

NextParse ==
    \/ SourceStep
    \/ MarkerStep
    \/ MarkerValueError
    \/ FinalAppend
    \/ FinalIndexError

SpecParse == InitParse /\ [][NextParse]_vars

(***************************************************************************)
(* Properties of parse_srcipts                                             *)
(***************************************************************************)
\* a line "-- Task <integer>"
IsMarker(line) == \E n \in 0..(MaxNum + 1) : line = MarkerLine(n)
MarkerNum(line) == CHOOSE n \in 0..(MaxNum + 1) : line = MarkerLine(n)

Markers(ls) == SelectSeq(ls, IsMarker)
WellFormed(ls) == \A i \in 1..Len(ls) : HasTaskPrefix(ls[i]) => IsMarker(ls[i])

ParseEnded == ppc \in {"return", "IndexError", "ValueError"}

Numbers(ts) == [k \in 1..Len(ts) |-> ts[k][1]]
Blocks(ts) == [k \in 1..Len(ts) |-> ts[k][2]]

\* the markers that find a non-empty block before them: all but a marker on line 1
ClosingMarkers(ls) == IF ls = <<>> THEN <<>> ELSE Markers(Tail(ls))

\* C1: a file with N >= 1 marker lines (and no other line with the prefix) is
\* split into exactly N tasks, wherever the markers sit.
C1_ExactlyNTasks ==
    (ParseEnded /\ WellFormed(file) /\ Len(Markers(file)) >= 1)
        => (ppc = "return" /\ Len(scripts) = Len(Markers(file)))

\* C2: a task closed by a following marker is numbered that marker's integer
\* minus one, the last task is numbered one more than the task before it, and
\* a file that starts with a marker and whose k-th marker carries k (N >= 2)
\* yields the numbers 1..N.
C2_Numbering ==
    ppc = "return" =>
        LET closing == ClosingMarkers(file)
            n == Len(scripts)
        IN /\ n = Len(closing) + 1
           /\ \A k \in 1..(n - 1) : scripts[k][1] = MarkerNum(closing[k]) - 1
           /\ scripts[n][1] = scripts[n - 1][1] + 1
           /\ ( /\ IsMarker(file[1])
                /\ Len(Markers(file)) >= 2
                /\ \A k \in 1..Len(Markers(file)) : MarkerNum(Markers(file)[k]) = k )
              => Numbers(scripts) = [k \in 1..Len(Markers(file)) |-> k]

C2_Witness ==
    /\ ppc = "return"
    /\ file = <<MarkerLine(1), SourceLine, MarkerLine(2), SourceLine>>
    /\ Numbers(scripts) = <<1, 2>>

\* C8: a line that is no marker, also one that begins with the prefix and has
\* no integer after it, is an ordinary source line: it raises no error and
\* closes no task.
C8_NonMarkerIsSource ==
    /\ ppc # "ValueError"
    /\ Len(scripts) <= Len(Markers(SubSeq(file, 1, idx))) + (IF ppc = "return" THEN 1 ELSE 0)

\* C10: when parse_srcipts returns, the tasks' line lists concatenated in
\* order are the file, no list is empty, and a marker line is always the
\* first line of its task.
C10_Partition ==
    ppc = "return" =>
        /\ Flatten(Blocks(scripts)) = file
        /\ \A k \in 1..Len(scripts) : scripts[k][2] # <<>>
        /\ \A k \in 1..Len(scripts) : \A j \in 2..Len(scripts[k][2]) : ~IsMarker(scripts[k][2][j])
        /\ \A k \in 2..Len(scripts) : IsMarker(scripts[k][2][1])

C10_Witness ==
    /\ ppc = "return"
    /\ file = <<SourceLine, MarkerLine(2), SourceLine, MarkerLine(3)>>
    /\ Blocks(scripts) = <<(<<SourceLine>>), <<MarkerLine(2), SourceLine>>, <<MarkerLine(3)>>>>

(***************************************************************************)
(* sanitize_latex                                                          *)
(***************************************************************************)
MaxLen == 4

\* "nbsp" stands for the one character U+00A0, "e'" for U+00E9
Chars == {"a", " ", "|", "~", "nbsp", "e'"}
Strings == UNION {[1..n -> Chars] : n \in 0..MaxLen}

Backslash == "\\"
TextBar == <<Backslash, "t", "e", "x", "t", "{", Backslash, "t", "e", "x", "t", "b", "a", "r", "}">>
AsciiTilde ==
    <<"{", Backslash, "t", "e", "x", "t", "a", "s", "c", "i", "i", "t", "i", "l", "d", "e", "}">>

\* unicode_to_latex(c, non_ascii_only=False) for one character
LatexOfChar(c) ==
    CASE c = "~" -> AsciiTilde
      [] c = "nbsp" -> <<"~">>
      [] c = "e'" -> <<Backslash, "'", "e">>
      [] OTHER -> <<c>>

UnicodeToLatex(s) == Flatten([i \in 1..Len(s) |-> LatexOfChar(s[i])])

\* string.replace("|", r"\text{\textbar}")
ReplaceBars(s) == Flatten([i \in 1..Len(s) |-> IF s[i] = "|" THEN TextBar ELSE <<s[i]>>])

RECURSIVE LeadingSpaces(_)
LeadingSpaces(s) == IF s # <<>> /\ Head(s) = " " THEN 1 + LeadingSpaces(Tail(s)) ELSE 0

Tildes(k) == [i \in 1..k |-> "~"]

\* re.sub(r" {2,}", lambda m: "~" * len(m.group(0)), string): scan from the
\* left, a match takes the whole run of spaces
RECURSIVE SubSpaceRunsShort(_)
SubSpaceRunsShort(s) ==
    IF s = <<>> THEN <<>>
    ELSE LET k == LeadingSpaces(s)
         IN IF k >= 2 THEN <<"~">> \o SubSpaceRunsShort(From(s, k))
            ELSE <<Head(s)>> \o SubSpaceRunsShort(Tail(s))

RECURSIVE SubSpaceRuns(_)
SubSpaceRuns(s) ==
    IF s = <<>> THEN <<>>
    ELSE LET k == LeadingSpaces(s)
         IN IF k >= 2 THEN Tildes(k) \o SubSpaceRuns(From(s, k))
            ELSE <<Head(s)>> \o SubSpaceRuns(Tail(s))

sanitize_latex(s) == SubSpaceRuns(ReplaceBars(UnicodeToLatex(s)))

InitSanitize ==
    /\ sin \in Strings
    /\ string = sin
    /\ spc = "encode"
    /\ file = <<>>
    /\ idx = 0
    /\ scripts = <<>>
    /\ script = <<>>
    /\ ppc = "idle"
    /\ RunIdle

SanEncode ==
    /\ spc = "encode"
    /\ string' = UnicodeToLatex(string)
    /\ spc' = "bars"
    /\ UNCHANGED <<sin, parseVars, runVars>>

SanBars ==
    /\ spc = "bars"
    /\ string' = ReplaceBars(string)
    /\ spc' = "spaces"
    /\ UNCHANGED <<sin, parseVars, runVars>>

SanSpaces ==
    /\ spc = "spaces"
    /\ string' = SubSpaceRuns(string)
    /\ spc' = "return"
    /\ UNCHANGED <<sin, parseVars, runVars>>

NextSanitize ==
    \/ SanEncode
    \/ SanBars
    \/ SanSpaces

SpecSanitize == InitSanitize /\ [][NextSanitize]_<<parseVars, sanVars, runVars>>

\* what the claim expects of the character at position i of the argument
ExpectedAt(s, i) ==
    CASE s[i] = " " ->
           IF (i > 1 /\ s[i - 1] = " ") \/ (i < Len(s) /\ s[i + 1] = " ") THEN <<"~">> ELSE <<" ">>
      [] s[i] = "|" -> TextBar
      [] OTHER -> LatexOfChar(s[i])

\* C9: the result of sanitize_latex has no "|", every space of a run of two
\* or more spaces has become one "~" and a single space is kept, so that no
\* two spaces are adjacent in the result.
C9_Sanitized ==
    spc = "return" =>
        /\ \A i \in 1..Len(string) : string[i] # "|"
        /\ string = Flatten([i \in 1..Len(sin) |-> ExpectedAt(sin, i)])
        /\ \A i \in 1..(Len(string) - 1) : ~(string[i] = " " /\ string[i + 1] = " ")
        /\ sin = <<"a", " ", " ", "a">> => string = <<"a", "~", "~", "a">>

C9_Witness ==
    /\ spc = "return"
    /\ sin = <<"|", " ", " ", " ">>
    /\ string = TextBar \o <<"~", "~", "~">>

(***************************************************************************)
(* main, process_script, find_parameters, print_table                      *)
(*                                                                         *)
(* A block of `scripts` is held here as what sqlparse.split returns for it *)
(* once the lines with the prefix are filtered out: the list `queries`,    *)
(* each query being the tokens that sqlparse.parse(query)[0].flatten()     *)
(* yields; the text of a query is the concatenation of its tokens' values. *)
(***************************************************************************)
MaxTasks == 2
MaxQueries == 2
MaxRows == 2
MaxCount == 2

Tok(ttype, value) == [ttype |-> ttype, value |-> value]

\* SELECT :a,':b',:a ;
QSelect ==
    << Tok("Keyword", <<"S", "E", "L", "E", "C", "T">>), Tok("Whitespace", <<" ">>),
       Tok("Placeholder", <<":", "a">>), Tok("Punctuation", <<",">>),
       Tok("String", <<"'", ":", "b", "'">>), Tok("Punctuation", <<",">>),
       Tok("Placeholder", <<":", "a">>), Tok("Whitespace", <<" ">>),
       Tok("Punctuation", <<";">>) >>

\* SET :a,:b,?
QUpdate ==
    << Tok("Keyword", <<"S", "E", "T">>), Tok("Whitespace", <<" ">>),
       Tok("Placeholder", <<":", "a">>), Tok("Punctuation", <<",">>),
       Tok("Placeholder", <<":", "b">>), Tok("Punctuation", <<",">>),
       Tok("Placeholder", <<"?">>) >>

\* the empty string
QEmpty == <<>>

Queries == {QSelect, QUpdate, QEmpty}

\* str(query)
Text(q) == Flatten([i \in 1..Len(q) |-> q[i].value])

\* the lists of queries of at most n queries
QueryLists(n) == UNION {[1..m -> Queries] : m \in 0..n}

RECURSIVE Total(_)
Total(lens) == IF lens = <<>> THEN 0 ELSE Head(lens) + Total(Tail(lens))

\* the lists parse_srcipts can return with at most maxq queries in all: two or
\* more tasks, the last one numbered one more than the one before it
ScriptsOf(maxt, maxq) ==
    UNION { { [k \in 1..n |-> <<k + 1, qs[k]>>] :
                qs \in {f \in [1..n -> QueryLists(maxq)] :
                          Total([k \in 1..n |-> Len(f[k])]) <= maxq} } :
            n \in 2..maxt }

\* what the database answers to cursor.execute
Column == <<"A", "|", "B">>
Cell == <<"x", " ", " ", "y">>
Rows(n) == {[description |-> <<Column>>, rows |-> [i \in 1..n |-> <<Cell>>], rowcount |-> 0]}
Counted(c) == [description |-> None, rows |-> <<>>, rowcount |-> c]
AllResults == UNION {Rows(n) : n \in 0..MaxRows} \cup {Counted(c) : c \in (0 - 1)..MaxCount}
SomeResults == Rows(1) \cup {Counted(0)}

\* the line read by input()
InputLine == <<"7">>

Line(kind, arg) == [kind |-> kind, arg |-> arg]
Event(ev, arg) == [ev |-> ev, arg |-> arg]

\* find_parameters
find_parameters_any(q) ==
    {From(q[i].value, 1) : i \in {j \in 1..Len(q) : q[j].ttype = "Placeholder"}}
find_parameters(q) ==
    {From(q[i].value, 1) :
        i \in {j \in 1..Len(q) : q[j].ttype = "Placeholder" /\ StartsWith(q[j].value, <<":">>)}}

\* if query.endswith(";"): query = query[:-1].rstrip()
StripTerminator(text) ==
    IF EndsWith(text, <<";">>) THEN RStrip(SubSeq(text, 1, Len(text) - 1)) ELSE text

\* the three prints of the minted block
Minted(text) == <<Line("minted_begin", <<>>), Line("query", text), Line("minted_end", <<>>)>>

\* print_table
print_table_open(column_names, rows) ==
    << Line("begin_center", <<>>), Line("begin_tabularx", Len(column_names)), Line("hline", <<>>),
       Line("header", [i \in 1..Len(column_names) |-> sanitize_latex(column_names[i])]),
       Line("hline", <<>>) >>
    \o Flatten([r \in 1..Len(rows) |->
                 <<Line("row", [i \in 1..Len(rows[r]) |-> sanitize_latex(rows[r][i])]),
                   Line("hline", <<>>)>>])
    \o <<Line("end_tabularx", <<>>)>>
print_table(column_names, rows) ==
    << Line("begin_center", <<>>), Line("begin_tabularx", Len(column_names)), Line("hline", <<>>),
       Line("header", [i \in 1..Len(column_names) |-> sanitize_latex(column_names[i])]),
       Line("hline", <<>>) >>
    \o Flatten([r \in 1..Len(rows) |->
                 <<Line("row", [i \in 1..Len(rows[r]) |-> sanitize_latex(rows[r][i])]),
                   Line("hline", <<>>)>>])
    \o <<Line("end_tabularx", <<>>), Line("end_center", <<>>)>>

\* the line for a positive cursor.rowcount
AffectedPlural(rowcount) == Line("status", <<DecimalOf(rowcount), "rows", "affected.">>)
Affected(rowcount) ==
    Line("status", <<DecimalOf(rowcount), IF rowcount = 1 THEN "row" ELSE "rows", "affected.">>)

\* lines 122-129 of process_script for the state c of the cursor
ResultLines(c) ==
    IF c.description # None THEN print_table(c.description, c.rows)
    ELSE IF c.rowcount > 0 THEN <<Affected(c.rowcount)>>
    ELSE <<Line("status", <<"Statement executed.">>)>>

\* cursor.__exit__: the closed cursors after the with block is left
CursorLeak(closed) == closed
CursorClose(closed) == closed + 1

\* if main() == False: exit(-1); the status is 0 when the module just ends
ExitAlwaysZero(returned) == 0
ExitStatus(returned) == IF returned = FALSE THEN 0 - 1 ELSE 0

\* the status of a process that ends with an uncaught exception
UncaughtStatus == 1

InitWith(inputs) ==
    /\ file = <<>>
    /\ idx = 0
    /\ scripts \in inputs
    /\ script = <<>>
    /\ ppc = "return"
    /\ SanIdle
    /\ pc = "init_client"
    /\ ti = 0
    /\ qi = 0
    /\ query = <<>>
    /\ params = {}
    /\ filled_params = <<>>
    /\ cursor = NoResult
    /\ connection = "None"
    /\ closes = 0
    /\ curOpened = 0
    /\ curClosed = 0
    /\ exc = NoException
    /\ status = "running"
    /\ out = <<>>
    /\ trace = <<Event("err", <<"Scripts found", Len(scripts)>>)>>

Init == InitWith(ScriptsOf(MaxTasks, MaxQueries))

idleVars == <<file, idx, scripts, script, ppc, sanVars>>
queries == scripts[ti][2]

\* oracledb.init_oracle_client returns
InitClient ==
    /\ pc = "init_client"
    /\ pc' = "connect"
    /\ UNCHANGED <<ti, qi, query, params, filled_params, cursor, connection, closes, curOpened,
                   curClosed, exc, status, out, trace, idleVars>>

\* oracledb.init_oracle_client raises, outside the try statement
InitClientError ==
    /\ pc = "init_client"
    /\ exc' = [kind |-> "db", at |-> "init_client"]
    /\ status' = UncaughtStatus
    /\ pc' = "exit"
    /\ UNCHANGED <<ti, qi, query, params, filled_params, cursor, connection, closes, curOpened,
                   curClosed, out, trace, idleVars>>

\* oracledb.connect returns
Connect ==
    /\ pc = "connect"
    /\ connection' = "open"
    /\ trace' = trace \o <<Event("err", <<"Connecting to the database... ">>),
                           Event("connect", <<"ok">>), Event("err", <<"connected!">>)>>
    /\ pc' = "header"
    /\ UNCHANGED <<ti, qi, query, params, filled_params, cursor, closes, curOpened, curClosed,
                   exc, status, out, idleVars>>

\* oracledb.connect raises oracledb.Error
ConnectError ==
    /\ pc = "connect"
    /\ trace' = trace \o <<Event("err", <<"Connecting to the database... ">>),
                           Event("connect", <<"error">>)>>
    /\ exc' = [kind |-> "db", at |-> "connect"]
    /\ pc' = "except"
    /\ UNCHANGED <<ti, qi, query, params, filled_params, cursor, connection, closes, curOpened,
                   curClosed, status, out, idleVars>>

\* print_header and the two prints after it
PrintHeader ==
    /\ pc = "header"
    /\ out' = out \o <<Line("preamble", <<"author", "title">>), Line("begin_document", <<>>),
                       Line("maketitle", <<>>)>>
    /\ pc' = "for_task"
    /\ UNCHANGED <<ti, qi, query, params, filled_params, cursor, connection, closes, curOpened,
                   curClosed, exc, status, trace, idleVars>>

\* the for loop of main takes the next task
NextTask ==
    /\ pc = "for_task"
    /\ ti < Len(scripts)
    /\ ti' = ti + 1
    /\ trace' = Append(trace, Event("err", <<"Running task", scripts[ti + 1][1]>>))
    /\ pc' = "cursor"
    /\ UNCHANGED <<qi, query, params, filled_params, cursor, connection, closes, curOpened,
                   curClosed, exc, status, out, idleVars>>

\* connection.cursor() returns, the with block is entered and prints the heading
OpenCursor ==
    /\ pc = "cursor"
    /\ curOpened' = curOpened + 1
    /\ trace' = Append(trace, Event("cursor", <<"ok">>))
    /\ out' = Append(out, Line("section", scripts[ti][1]))
    /\ qi' = 0
    /\ cursor' = NoResult
    /\ pc' = "for_query"
    /\ UNCHANGED <<ti, query, params, filled_params, connection, closes, curClosed, exc,
                   status, idleVars>>

\* connection.cursor() raises oracledb.Error
CursorError ==
    /\ pc = "cursor"
    /\ trace' = Append(trace, Event("cursor", <<"error">>))
    /\ exc' = [kind |-> "db", at |-> "cursor"]
    /\ pc' = "except"
    /\ UNCHANGED <<ti, qi, query, params, filled_params, cursor, connection, closes, curOpened,
                   curClosed, status, out, idleVars>>

\* `if not query: continue`
SkipQuery ==
    /\ pc = "for_query"
    /\ qi < Len(queries)
    /\ Text(queries[qi + 1]) = <<>>
    /\ qi' = qi + 1
    /\ UNCHANGED <<pc, ti, query, params, filled_params, cursor, connection, closes, curOpened,
                   curClosed, exc, status, out, trace, idleVars>>

\* lines 106-115: the minted block, find_parameters, the terminator is stripped
BeginQuery ==
    /\ pc = "for_query"
    /\ qi < Len(queries)
    /\ Text(queries[qi + 1]) # <<>>
    /\ qi' = qi + 1
    /\ out' = out \o Minted(Text(queries[qi + 1]))
    /\ params' = find_parameters(queries[qi + 1])
    /\ query' = StripTerminator(Text(queries[qi + 1]))
    /\ filled_params' = <<>>
    /\ pc' = "params"
    /\ UNCHANGED <<ti, cursor, connection, closes, curOpened, curClosed, exc, status, trace,
                   idleVars>>

\* one round of `for param in params`: the prompt, then input() returns a line
Prompt(param) ==
    /\ pc = "params"
    /\ param \in params
    /\ trace' = trace \o <<Event("prompt", <<ti, qi, param>>), Event("input", <<ti, qi, param>>)>>
    /\ filled_params' = [n \in DOMAIN filled_params \cup {param} |->
                            IF n = param THEN InputLine ELSE filled_params[n]]
    /\ params' = params \ {param}
    /\ UNCHANGED <<pc, ti, qi, query, cursor, connection, closes, curOpened, curClosed, exc,
                   status, out, idleVars>>

\* input() raises EOFError: the interactive channel is at its end
PromptEOF(param) ==
    /\ pc = "params"
    /\ param \in params
    /\ trace' = Append(trace, Event("prompt", <<ti, qi, param>>))
    /\ exc' = [kind |-> "eof", at |-> "input"]
    /\ pc' = "with_exit"
    /\ UNCHANGED <<ti, qi, query, params, filled_params, cursor, connection, closes, curOpened,
                   curClosed, status, out, idleVars>>

\* cursor.execute(query, filled_params) returns
Execute(r) ==
    /\ pc = "params"
    /\ params = {}
    /\ trace' = Append(trace, Event("execute", <<ti, qi, query, filled_params, "ok">>))
    /\ cursor' = r
    /\ pc' = "result"
    /\ UNCHANGED <<ti, qi, query, params, filled_params, connection, closes, curOpened,
                   curClosed, exc, status, out, idleVars>>

\* cursor.execute raises oracledb.Error
ExecuteError ==
    /\ pc = "params"
    /\ params = {}
    /\ trace' = Append(trace, Event("execute", <<ti, qi, query, filled_params, "error">>))
    /\ exc' = [kind |-> "db", at |-> "execute"]
    /\ pc' = "with_exit"
    /\ UNCHANGED <<ti, qi, query, params, filled_params, cursor, connection, closes, curOpened,
                   curClosed, status, out, idleVars>>

\* lines 122-129: the table or the status line
PrintResult ==
    /\ pc = "result"
    /\ out' = out \o ResultLines(cursor)
    /\ pc' = "for_query"
    /\ UNCHANGED <<ti, qi, query, params, filled_params, cursor, connection, closes, curOpened,
                   curClosed, exc, status, trace, idleVars>>

\* cursor.fetchall raises oracledb.Error
FetchError ==
    /\ pc = "result"
    /\ cursor.description # None
    /\ trace' = Append(trace, Event("fetchall", <<"error">>))
    /\ exc' = [kind |-> "db", at |-> "fetchall"]
    /\ pc' = "with_exit"
    /\ UNCHANGED <<ti, qi, query, params, filled_params, cursor, connection, closes, curOpened,
                   curClosed, status, out, idleVars>>

\* process_script returns: the page break, the with block is left, "done"
EndTask ==
    /\ pc = "for_query"
    /\ qi = Len(queries)
    /\ out' = Append(out, Line("pagebreak", <<>>))
    /\ curClosed' = CursorClose(curClosed)
    /\ trace' = Append(trace, Event("err", <<"done">>))
    /\ pc' = "for_task"
    /\ UNCHANGED <<ti, qi, query, params, filled_params, cursor, connection, closes, curOpened,
                   exc, status, idleVars>>

\* an exception leaves the with block: the cursor is closed, then the
\* exception reaches the except clause if it is an oracledb.Error
CursorExit ==
    /\ pc = "with_exit"
    /\ curClosed' = CursorClose(curClosed)
    /\ pc' = IF exc.kind = "db" THEN "except" ELSE "finally"
    /\ UNCHANGED <<ti, qi, query, params, filled_params, cursor, connection, closes, curOpened,
                   exc, status, out, trace, idleVars>>

\* the for loop of main is over: \end{document}, return True
EndDocument ==
    /\ pc = "for_task"
    /\ ti = Len(scripts)
    /\ out' = Append(out, Line("end_document", <<>>))
    /\ pc' = "finally"
    /\ UNCHANGED <<ti, qi, query, params, filled_params, cursor, connection, closes, curOpened,
                   curClosed, exc, status, trace, idleVars>>

\* except oracledb.Error: the error line, return False
HandleError ==
    /\ pc = "except"
    /\ trace' = Append(trace, Event("err", <<"Database error occurred">>))
    /\ pc' = "finally"
    /\ UNCHANGED <<ti, qi, query, params, filled_params, cursor, connection, closes, curOpened,
                   curClosed, exc, status, out, idleVars>>

\* the finally clause, then the process ends
Finally ==
    /\ pc = "finally"
    /\ IF connection # "None"
       THEN /\ connection' = "closed"
            /\ closes' = closes + 1
            /\ trace' = Append(trace, Event("err", <<"Connection closed.">>))
       ELSE UNCHANGED <<connection, closes, trace>>
    /\ status' = IF exc.kind = "eof" THEN UncaughtStatus ELSE ExitStatus(exc.kind = "none")
    /\ pc' = "exit"
    /\ UNCHANGED <<ti, qi, query, params, filled_params, cursor, curOpened, curClosed, exc, out,
                   idleVars>>

Steps ==
    \/ InitClient
    \/ InitClientError
    \/ Connect
    \/ ConnectError
    \/ PrintHeader
    \/ NextTask
    \/ OpenCursor
    \/ CursorError
    \/ SkipQuery
    \/ BeginQuery
    \/ \E param \in params : Prompt(param)
    \/ \E param \in params : PromptEOF(param)
    \/ ExecuteError
    \/ PrintResult
    \/ FetchError
    \/ EndTask
    \/ CursorExit
    \/ EndDocument
    \/ HandleError
    \/ Finally

Next == Steps \/ \E r \in SomeResults : Execute(r)

Spec == Init /\ [][Next]_vars

\* process_script on every answer of the database: scripts of one query
InitResults == InitWith(ScriptsOf(MaxTasks, 1))
NextResults == Steps \/ \E r \in AllResults : Execute(r)
SpecResults == InitResults /\ [][NextResults]_vars

(***************************************************************************)
(* Properties of main and process_script                                   *)
(***************************************************************************)
IsPrefix(s, t) == Len(s) <= Len(t) /\ SubSeq(t, 1, Len(s)) = s

Ended == pc = "exit"
CaughtPlaces == {"connect", "cursor", "execute", "fetchall"}
ErrorLine == Event("err", <<"Database error occurred">>)
ClosedLine == Event("err", <<"Connection closed.">>)
ErrorLineAt == {j \in 1..Len(trace) : trace[j].ev = "err" /\ trace[j] = ErrorLine}

\* the database error was caught once: the error line follows the failing
\* call, only the closing of the connection follows it, the status is -1
Caught ==
    /\ status = 0 - 1
    /\ Cardinality(ErrorLineAt) = 1
    /\ \A j \in ErrorLineAt :
          /\ j > 1
          /\ trace[j - 1].ev = exc.at
          /\ \A i \in (j + 1)..Len(trace) : trace[i].ev = "err" /\ trace[i] = ClosedLine
    /\ connection \in {"None", "closed"}
    /\ connection = "None" <=> exc.at = "connect"

\* C3 as stated: a database error raised by connect or while a statement is
\* executed is caught once, with the error line, the connection closed,
\* nothing executed after it and exit status -1; a run without a database
\* error ends with exit status 0.
C3_AsStated ==
    Ended =>
        /\ (exc.kind = "db" /\ exc.at \in CaughtPlaces) => Caught
        /\ exc.kind # "db" => status = 0

\* C3 amended: as above, and a run in which no exception at all is raised
\* ends with exit status 0.
C3_Errors ==
    Ended =>
        /\ (exc.kind = "db" /\ exc.at \in CaughtPlaces) => Caught
        /\ exc = NoException => status = 0

C3_Witness ==
    /\ Ended
    /\ exc.at = "execute"
    /\ ti < Len(scripts)
    /\ status = 0 - 1
    /\ connection = "closed"

InTask == pc \in {"for_query", "params", "result", "with_exit"}

\* C4: one cursor per task, opened at its start and closed at its end also
\* when a statement fails; never two cursors open; no cursor open once the
\* connection is closed; an opened connection is closed exactly once before
\* the program exits, on every path.
C4_Scoping ==
    /\ curOpened - curClosed = (IF InTask THEN 1 ELSE 0)
    /\ pc = "for_task" => curOpened = ti
    /\ InTask => curOpened = ti
    /\ connection = "closed" => curOpened = curClosed
    /\ closes = (IF connection = "closed" THEN 1 ELSE 0)
    /\ Ended => (connection # "open" /\ curOpened = curClosed)

C4_Witness ==
    /\ Ended
    /\ exc.kind = "eof"
    /\ ti = 2
    /\ curOpened = 2
    /\ curClosed = 2
    /\ closes = 1

\* the statements that are not skipped, in the order of the file
RECURSIVE PositionsFrom(_)
PositionsFrom(t) ==
    IF t > Len(scripts) THEN <<>>
    ELSE SelectSeq([q \in 1..Len(scripts[t][2]) |-> <<t, q>>],
                   LAMBDA p : scripts[p[1]][2][p[2]] # QEmpty)
         \o PositionsFrom(t + 1)
Positions == PositionsFrom(1)

\* the names the claim expects for each statement of the model
ExpectedNames(q) ==
    CASE q = QSelect -> {<<"a">>}
      [] q = QUpdate -> {<<"a">>, <<"b">>}
      [] OTHER -> {}

ExecuteAt == {j \in 1..Len(trace) : trace[j].ev = "execute"}
AskAt == {j \in 1..Len(trace) : trace[j].ev \in {"prompt", "input"}}
ExecutesBefore(j) == Cardinality({i \in ExecuteAt : i < j})

\* C5: statements are executed in the order of the tasks and of the split,
\* each statement that is not skipped exactly once; each distinct name of a
\* statement is prompted for and read exactly once, after the execution of
\* the statement before and before its own; the bind mapping has exactly the
\* distinct names as keys.
C5_Sequential ==
    /\ Cardinality(ExecuteAt) <= Len(Positions)
    /\ \A j \in ExecuteAt :
          LET p == Positions[ExecutesBefore(j) + 1]
              names == ExpectedNames(scripts[p[1]][2][p[2]])
          IN /\ trace[j].arg[1] = p[1]
             /\ trace[j].arg[2] = p[2]
             /\ DOMAIN trace[j].arg[4] = names
             /\ \A n \in names :
                   \E i \in AskAt :
                      /\ i < j
                      /\ trace[i] = Event("prompt", <<p[1], p[2], n>>)
                      /\ trace[i + 1].ev = "input"
                      /\ trace[i + 1] = Event("input", <<p[1], p[2], n>>)
    /\ \A i \in AskAt :
          /\ ExecutesBefore(i) < Len(Positions)
          /\ LET p == Positions[ExecutesBefore(i) + 1]
             IN /\ trace[i].arg[1] = p[1]
                /\ trace[i].arg[2] = p[2]
                /\ trace[i].arg[3] \in ExpectedNames(scripts[p[1]][2][p[2]])
          /\ \A k \in AskAt : (trace[k] = trace[i]) => k = i
    /\ (Ended /\ exc = NoException) => Cardinality(ExecuteAt) = Len(Positions)

C5_Witness ==
    /\ Ended
    /\ exc = NoException
    /\ scripts = << <<2, <<QUpdate, QSelect>>>>, <<3, <<>>>> >>
    /\ Cardinality(ExecuteAt) = 2
    /\ Cardinality(AskAt) = 6

\* the document of the claim, with one "result" where a table or a status
\* line is expected
ExpectedTask(t) ==
    <<Line("section", scripts[t][1])>>
    \o Flatten([q \in 1..Len(scripts[t][2]) |->
                 IF scripts[t][2][q] = QEmpty THEN <<>>
                 ELSE <<Line("minted_begin", <<>>), Line("query", Text(scripts[t][2][q])),
                        Line("minted_end", <<>>), Line("result", <<>>)>>])
    \o <<Line("pagebreak", <<>>)>>

ExpectedDocument ==
    <<Line("preamble", <<"author", "title">>), Line("begin_document", <<>>),
      Line("maketitle", <<>>)>>
    \o Flatten([t \in 1..Len(scripts) |-> ExpectedTask(t)])
    \o <<Line("end_document", <<>>)>>

Kinds(ls) == [i \in 1..Len(ls) |-> ls[i].kind]

\* a table: the frame, one header row, then rows, each row followed by a rule
IsTable(ls) ==
    /\ Len(ls) >= 7
    /\ (Len(ls) - 7) % 2 = 0
    /\ SubSeq(Kinds(ls), 1, 5) = <<"begin_center", "begin_tabularx", "hline", "header", "hline">>
    /\ \A i \in 6..(Len(ls) - 2) : ls[i].kind = (IF i % 2 = 0 THEN "row" ELSE "hline")
    /\ SubSeq(Kinds(ls), Len(ls) - 1, Len(ls)) = <<"end_tabularx", "end_center">>

FirstEnd(ls) ==
    IF \E i \in 1..Len(ls) : ls[i].kind = "end_center"
    THEN CHOOSE i \in 1..Len(ls) :
            ls[i].kind = "end_center" /\ \A k \in 1..(i - 1) : ls[k].kind # "end_center"
    ELSE 0

\* the written lines are a prefix of the expected document
RECURSIVE IsDocumentPrefix(_, _)
IsDocumentPrefix(written, expected) ==
    IF written = <<>> THEN TRUE
    ELSE IF expected = <<>> THEN FALSE
    ELSE IF Head(expected).kind = "result"
         THEN IF Head(written).kind = "status"
              THEN IsDocumentPrefix(Tail(written), Tail(expected))
              ELSE /\ FirstEnd(written) > 0
                   /\ IsTable(SubSeq(written, 1, FirstEnd(written)))
                   /\ IsDocumentPrefix(From(written, FirstEnd(written)), Tail(expected))
         ELSE /\ Head(written).kind = Head(expected).kind
              /\ Head(written) = Head(expected)
              /\ IsDocumentPrefix(Tail(written), Tail(expected))

EndWritten == out # <<>> /\ out[Len(out)].kind = "end_document"
ExecutedAt == {j \in ExecuteAt : trace[j].arg[5] = "ok"}

C6_Document ==
    /\ IsDocumentPrefix(out, ExpectedDocument)
    /\ Ended => (EndWritten <=> (exc = NoException /\ Cardinality(ExecutedAt) = Len(Positions)))
    /\ (Ended /\ exc.at \in {"execute", "fetchall"}) =>
          /\ Len(out) >= 2
          /\ out[Len(out)] = Line("minted_end", <<>>)
          /\ out[Len(out) - 1].kind = "query"
          /\ out[Len(out) - 1] = Line("query", Text(scripts[ti][2][qi]))
    /\ exc.at = "connect" => out = <<>>

\* C6: what is on standard output is always a prefix of preamble, document
\* begin, title, then per task the heading, per statement the code block and
\* one table or status line, the page break, and the document end; the
\* document end is there iff every statement was executed without an error;
\* after a database error the failing statement's code block is the last
\* output; a failed connect leaves standard output empty; nothing written is
\* ever taken back.
C6_Output == []C6_Document /\ [][IsPrefix(out, out')]_vars

C6_Witness ==
    /\ Ended
    /\ exc.at = "execute"
    /\ ti = 2
    /\ \E i \in 1..Len(out) : out[i].kind = "end_center"
    /\ out[Len(out)].kind = "minted_end"

CountKind(ls, kind) == Cardinality({i \in 1..Len(ls) : ls[i].kind = kind})

\* what the claim expects for the state c of the cursor
Classified(c, added) ==
    IF c.description # None
    THEN /\ IsTable(added)
         /\ CountKind(added, "header") = 1
         /\ CountKind(added, "row") = Len(c.rows)
         /\ CountKind(added, "status") = 0
    ELSE IF c.rowcount = 1 THEN added = <<Line("status", <<"1", "row", "affected.">>)>>
    ELSE IF c.rowcount >= 2
         THEN added = <<Line("status", <<DecimalOf(c.rowcount), "rows", "affected.">>)>>
    ELSE added = <<Line("status", <<"Statement executed.">>)>>

\* C7: after an executed statement exactly one of three is written: with a
\* column description a table of one header row and one row per record (the
\* header row alone for zero records); else for a count of 1 "1 row
\* affected.", for a count N >= 2 "N rows affected."; else "Statement
\* executed.".
C7_Classification ==
    [][(pc = "result" /\ pc' = "for_query") =>
          /\ IsPrefix(out, out')
          /\ Classified(cursor, SubSeq(out', Len(out) + 1, Len(out')))]_vars

C7_Witness ==
    /\ pc = "for_query"
    /\ qi = 1
    /\ cursor.description # None
    /\ cursor.rows = <<>>
    /\ Len(out) > 7
    /\ IsTable(From(out, Len(out) - 7))

====
